---- MODULE Spec2Model ----
(***************************************************************************)
(* Functions of time (neuroimaging.modalities.fmri.functions).             *)
(*                                                                         *)
(* A TimeFunction maps a time array to nout output channels.  The module   *)
(* models the evaluation of a TimeFunction (__call__), the operator        *)
(* overloads (__mul__, __add__, __sub__, __div__ through _helper) and the  *)
(* generators built on it (InterpolatedConfound, FunctionConfound,         *)
(* PeriodicStimulus, Events, DeltaFunction, SplineConfound).               *)
(*                                                                         *)
(* Numbers are exact rationals <<n, d>> (d > 0, lowest terms); <<1, 0>>    *)
(* stands for N.inf.  An array is a record [err, shape, data] with the     *)
(* data in row-major order; a raised exception is a record whose err is    *)
(* the exception's name.                                                   *)
(***************************************************************************)
EXTENDS Integers, Sequences, FiniteSets, TLC

VARIABLES f, obj, log, lastOp, ret, invoked

vars == <<f, obj, log, lastOp, ret, invoked>>

-----------------------------------------------------------------------------
(* Numbers *)

Abs(n) == IF n < 0 THEN -n ELSE n

RECURSIVE GCD(_, _)
GCD(a, b) == IF b = 0 THEN a ELSE GCD(b, a % b)

\* The rational n/d in lowest terms with a positive denominator.
Rat(n, d) ==
    LET g == GCD(Abs(n), Abs(d))
        s == IF d < 0 THEN -1 ELSE 1
    IN  <<(s * n) \div g, (s * d) \div g>>

Num(n) == <<n, 1>>

Zero == Num(0)
One == Num(1)
Inf == <<1, 0>>

RAdd(a, b) == Rat(a[1] * b[2] + b[1] * a[2], a[2] * b[2])
RSub(a, b) == Rat(a[1] * b[2] - b[1] * a[2], a[2] * b[2])
RMul(a, b) == Rat(a[1] * b[1], a[2] * b[2])
RDiv(a, b) == Rat(a[1] * b[2], a[2] * b[1])

RECURSIVE RPow(_, _)
RPow(a, j) == IF j = 0 THEN One ELSE RMul(a, RPow(a, j - 1))

RLess(a, b) == a[1] * b[2] < b[1] * a[2]
RLessEqual(a, b) == a[1] * b[2] <= b[1] * a[2]
RGreater(a, b) == RLess(b, a)
RGreaterEqual(a, b) == RLessEqual(b, a)

\* A comparison's result as a number, as numpy multiplies it.
Bool(b) == IF b THEN One ELSE Zero

\* scipy.sandbox.models.utils.recipr0: the reciprocal, 0 at 0.
recipr0(x) == IF x[1] = 0 THEN Zero ELSE RDiv(One, x)

\* The elementwise operation an operator overload applies.
BinOp(op, x, y) ==
    CASE op = "mul" -> RMul(x, y)
      [] op = "add" -> RAdd(x, y)
      [] op = "sub" -> RSub(x, y)
      [] op = "div" -> RMul(x, recipr0(y))

-----------------------------------------------------------------------------
(* Arrays *)

Arr(shape, data) == [err |-> "ok", shape |-> shape, data |-> data]
Raise(e) == [err |-> e, shape |-> <<>>, data |-> <<>>]
IsErr(a) == a.err # "ok"

Scalar(x) == Arr(<<>>, <<x>>)
Vec(s) == Arr(<<Len(s)>>, s)

RECURSIVE Prod(_)
Prod(s) == IF s = <<>> THEN 1 ELSE Head(s) * Prod(Tail(s))

RECURSIVE Concat(_)
Concat(ss) == IF ss = <<>> THEN <<>> ELSE Head(ss) \o Concat(Tail(ss))

RECURSIVE DropOnes(_)
DropOnes(s) ==
    IF s = <<>> THEN <<>>
    ELSE IF Head(s) = 1 THEN DropOnes(Tail(s))
    ELSE <<Head(s)>> \o DropOnes(Tail(s))

\* N.squeeze: every axis of length 1 is removed.
squeeze(a) == IF IsErr(a) THEN a ELSE Arr(DropOnes(a.shape), a.data)

\* a[i] for a 0-based index i along the first axis.
GetItem(a, i) ==
    IF IsErr(a) THEN a
    ELSE IF a.shape = <<>> \/ i >= Head(a.shape) THEN Raise("IndexError")
    ELSE LET w == Prod(Tail(a.shape))
         IN  Arr(Tail(a.shape), SubSeq(a.data, i * w + 1, (i + 1) * w))

\* The sub-arrays along the first axis, as iterating an array yields them.
Rows(a) == [i \in 1..Head(a.shape) |-> GetItem(a, i - 1)]

\* N.array(columns) for a list of arrays of one shape.
array(columns) ==
    IF \E k \in 1..Len(columns) : IsErr(columns[k])
    THEN columns[CHOOSE k \in 1..Len(columns) :
                     /\ IsErr(columns[k])
                     /\ \A j \in 1..(k - 1) : ~IsErr(columns[j])]
    ELSE IF columns = <<>> THEN Arr(<<0>>, <<>>)
    ELSE IF \E k \in 1..Len(columns) : columns[k].shape # columns[1].shape
    THEN Raise("ValueError")
    ELSE Arr(<<Len(columns)>> \o columns[1].shape,
             Concat([k \in 1..Len(columns) |-> columns[k].data]))

\* An elementwise numpy operation of two arrays: equal shapes, or one a
\* scalar (lines 87, 90, 104, 108, 122, 126, 141, 144).
Broadcast(Op(_, _), a, b) ==
    IF IsErr(a) THEN a
    ELSE IF IsErr(b) THEN b
    ELSE IF a.shape = b.shape
    THEN Arr(a.shape, [k \in 1..Len(a.data) |-> Op(a.data[k], b.data[k])])
    ELSE IF b.shape = <<>>
    THEN Arr(a.shape, [k \in 1..Len(a.data) |-> Op(a.data[k], b.data[1])])
    ELSE IF a.shape = <<>>
    THEN Arr(b.shape, [k \in 1..Len(b.data) |-> Op(a.data[1], b.data[k])])
    ELSE Raise("ValueError")

\* An elementwise numpy function of one array (lines 54, 267, 289, 301).
Map(Op(_), a) ==
    IF IsErr(a) THEN a ELSE Arr(a.shape, [k \in 1..Len(a.data) |-> Op(a.data[k])])

Apply(op, a, b) ==
    LET Op(x, y) == BinOp(op, x, y) IN Broadcast(Op, a, b)

\* v[i] op= c: the sub-array i of v combined in place with the number c.
InPlace(op, v, i, c) ==
    IF IsErr(v) THEN v
    ELSE IF v.shape = <<>> \/ i >= Head(v.shape) THEN Raise("IndexError")
    ELSE LET w == Prod(Tail(v.shape))
         IN  Arr(v.shape,
                 [k \in 1..Len(v.data) |->
                     IF k > i * w /\ k <= (i + 1) * w
                     THEN BinOp(op, v.data[k], c)
                     ELSE v.data[k]])

-----------------------------------------------------------------------------
(* Evaluation rules *)

\* The time array [t1, ..., tT].
Time(ts) == Vec(ts)

\* _window of __call__: 1 where window[0] < time <= window[1].
Window(window, time) ==
    LET In(t) == RMul(Bool(RGreater(t, window[1])), Bool(RLessEqual(t, window[2])))
    IN  Map(In, time)

\* getpoly(j): time**j.
poly(j, time) == LET P(t) == RPow(t, j) IN Map(P, time)

\* _getspline(a, b): time**3 on (a, b], 0 elsewhere.
spline(a, b, time) ==
    LET S(t) == RMul(RMul(RPow(t, 3), Bool(RGreater(t, a))), Bool(RLessEqual(t, b)))
    IN  Map(S, time)

\* StepFunction(x, y, sorted=True): the level of the last breakpoint at or
\* before the time, and 0 before the first breakpoint.
StepFunction(x, y, time) ==
    LET S(t) == LET n == Cardinality({k \in 1..Len(x) : RLessEqual(x[k], t)})
                IN  IF n = 0 THEN Zero ELSE y[n]
    IN  Map(S, time)

\* The value interp1d(bounds_error=0) gives outside the samples: a defined
\* fill value, taken as 0.
fill_value == Zero

\* interp1d(x, y, bounds_error=0): piecewise linear through the samples.
interp1d(x, y, time) ==
    LET I(t) ==
            IF RLess(t, x[1]) \/ RGreater(t, x[Len(x)]) THEN fill_value
            ELSE IF t = x[Len(x)] THEN y[Len(x)]
            ELSE LET k == CHOOSE k \in 1..(Len(x) - 1) :
                              RLessEqual(x[k], t) /\ RLess(t, x[k + 1])
                 IN  RAdd(y[k], RMul(RSub(y[k + 1], y[k]),
                                     RDiv(RSub(t, x[k]), RSub(x[k + 1], x[k]))))
    IN  Map(I, time)

RECURSIVE __call__(_, _)
RECURSIVE CallFn(_, _)
RECURSIVE f3Loop(_, _, _, _)

\* The loop of f3: for i in range(_other.shape[0]): v[i] op= _other[i].
f3Loop(op, v, other, i) ==
    IF i = Len(other) THEN v
    ELSE f3Loop(op, InPlace(op, v, i, other[i + 1]), other, i + 1)

\* fn(time=time) for an evaluation rule fn.
CallFn(fn, time) ==
    CASE fn.tag = "poly" -> poly(fn.j, time)
      [] fn.tag = "spline" -> spline(fn.a, fn.b, time)
      [] fn.tag = "step" -> StepFunction(fn.x, fn.y, time)
      [] fn.tag = "f1" ->
            squeeze(Apply(fn.op, __call__(fn.self, time), __call__(fn.other, time)))
      [] fn.tag = "f2" ->
            squeeze(Apply(fn.op, __call__(fn.self, time), Scalar(fn.other)))
      [] fn.tag = "f3" ->
            squeeze(f3Loop(fn.op, __call__(fn.self, time), fn.other, 0))
      [] OTHER -> Raise("TypeError")

\* columns = [column * _window for column in columns]
Windowed(columns, window, time) ==
    [k \in 1..Len(columns) |-> Apply("mul", columns[k], Window(window, time))]

\* TimeFunction.__call__
TimeFunction__call__(self, time) ==
    LET isList == self.nout = 1 \/ self.fn.tag = "list"
        list == IF self.nout = 1 THEN <<CallFn(self.fn, time)>>
                ELSE IF self.fn.tag = "list"
                THEN [k \in 1..Len(self.fn.fns) |-> CallFn(self.fn.fns[k], time)]
                ELSE <<>>
        columns == IF isList THEN array(list) ELSE CallFn(self.fn, time)
    IN  IF ~self.windowed THEN squeeze(columns)
        ELSE IF IsErr(columns) THEN columns
        ELSE IF isList THEN squeeze(array(Windowed(list, self.window, time)))
        ELSE IF columns.shape = <<>> THEN Raise("TypeError")
        ELSE squeeze(array(Windowed(Rows(columns), self.window, time)))

\* InterpolatedConfound.__call__
InterpolatedConfound__call__(self, time) ==
    LET list == IF self.nout = 1
                THEN IF self.f.tag = "interp"
                     THEN <<interp1d(self.f.x, self.f.y, time)>>
                     ELSE <<Raise("TypeError")>>
                ELSE [k \in 1..Len(self.f.fns) |->
                         interp1d(self.f.fns[k].x, self.f.fns[k].y, time)]
    IN  IF ~self.windowed THEN squeeze(array(list))
        ELSE squeeze(array(Windowed(list, self.window, time)))

\* DeltaFunction.__call__
DeltaFunction__call__(self, time) ==
    LET D(t) == RDiv(RMul(Bool(RGreaterEqual(t, self.start)),
                          Bool(RLess(t, RAdd(self.start, self.dt)))),
                     self.dt)
    IN  Map(D, time)

\* self(time=time): the __call__ of the object's class.
__call__(self, time) ==
    CASE self.cls = "DeltaFunction" -> DeltaFunction__call__(self, time)
      [] self.cls = "InterpolatedConfound" -> InterpolatedConfound__call__(self, time)
      [] OTHER -> TimeFunction__call__(self, time)

-----------------------------------------------------------------------------
(* TimeFunction and its operator overloads *)

\* The window trait's default, [0., 0.].
DefaultWindow == <<Zero, Zero>>

\* TimeFunction(fn=fn, nout=nout): windowed and window keep their defaults.
TimeFunction(fn, nout) ==
    [cls |-> "TimeFunction", nout |-> nout, fn |-> fn,
     windowed |-> FALSE, window |-> DefaultWindow]

\* What an operation hands back: a value, or the exception it raised.
Return(kind, val) == [kind |-> kind, val |-> val]

\* N.array(other), the default of f3's _other.
asarray(other) ==
    IF other.kind = "list" THEN other.val
    ELSE IF other.kind = "ndarray" THEN other.val.data
    ELSE <<>>

\* The closures f1, f2 and f3 an operator overload defines, with the
\* operands bound as the defaults _self and _other.
f1Self(op, self, other) == [tag |-> "f1", op |-> op, self |-> self, other |-> self]
f1(op, self, other) == [tag |-> "f1", op |-> op, self |-> self, other |-> other.val]
f2(op, self, other) == [tag |-> "f2", op |-> op, self |-> self, other |-> other.val]
f3(op, self, other) ==
    [tag |-> "f3", op |-> op, self |-> self, other |-> asarray(other)]

\* _helper without its check of a list's length.
_helperUnchecked(self, other, _f1, _f2, _f3) ==
    IF other.kind = "tf"
    THEN IF other.val.nout = self.nout
         THEN Return("tf", TimeFunction(_f1, self.nout))
         ELSE Return("raise", "ValueError")
    ELSE IF other.kind = "scalar"
    THEN Return("tf", TimeFunction(_f2, self.nout))
    ELSE IF other.kind \in {"list", "ndarray"}
    THEN IF other.kind = "ndarray" /\ other.val.shape # <<self.nout>>
         THEN Return("raise", "str")
         ELSE Return("tf", TimeFunction(_f3, self.nout))
    ELSE Return("raise", "ValueError")

\* TimeFunction._helper
_helper(self, other, _f1, _f2, _f3) ==
    IF other.kind = "tf"
    THEN IF other.val.nout = self.nout
         THEN Return("tf", TimeFunction(_f1, self.nout))
         ELSE Return("raise", "ValueError")
    ELSE IF other.kind = "scalar"
    THEN Return("tf", TimeFunction(_f2, self.nout))
    ELSE IF other.kind \in {"list", "ndarray"}
    THEN IF other.kind = "ndarray"
         THEN IF other.val.shape # <<self.nout>>
              THEN Return("raise", "str")
              ELSE Return("tf", TimeFunction(_f3, self.nout))
         ELSE IF Len(other.val) # self.nout
              THEN Return("raise", "str")
              ELSE Return("tf", TimeFunction(_f3, self.nout))
    ELSE Return("raise", "ValueError")

__mul__(self, other) ==
    _helper(self, other, f1("mul", self, other), f2("mul", self, other),
            f3("mul", self, other))

__add__(self, other) ==
    _helper(self, other, f1("add", self, other), f2("add", self, other),
            f3("add", self, other))

__sub__(self, other) ==
    _helper(self, other, f1("sub", self, other), f2("sub", self, other),
            f3("sub", self, other))

\* __div__ with the divisor used as it is, not its reciprocal.
__div__NoReciprocal(self, other) ==
    _helper(self, other, f1("mul", self, other), f2("mul", self, other),
            f3("mul", self, other))

__div__(self, other) ==
    _helper(self, other, f1("div", self, other), f2("div", self, other),
            f3("div", self, other))

\* How deeply the operator overloads are nested in a TimeFunction.
RECURSIVE Depth(_)
Depth(self) ==
    IF self.fn.tag = "f1"
    THEN 1 + (IF Depth(self.fn.self) > Depth(self.fn.other)
              THEN Depth(self.fn.self) ELSE Depth(self.fn.other))
    ELSE IF self.fn.tag \in {"f2", "f3"} THEN 1 + Depth(self.fn.self)
    ELSE 0

-----------------------------------------------------------------------------
(* Bounds and inputs *)

MaxDepth == 2
MaxT == 2

\* The time arrays: the slices of the grid 0, 1, ..., MaxT - 1.
TimeGrid == [i \in 1..MaxT |-> Num(i - 1)]
TimeArrays ==
    {Time(SubSeq(TimeGrid, i, j)) : i \in 1..MaxT, j \in 1..MaxT} \ {Time(<<>>)}

Fn(tag, j) == [tag |-> tag, j |-> j]
FnList(fns) == [tag |-> "list", fns |-> fns]

\* A one-channel function t, and a two-channel one (t, t**2) whose rule is
\* a list of functions.
LeafA == TimeFunction(Fn("poly", 1), 1)
LeafB == TimeFunction(FnList(<<Fn("poly", 1), Fn("poly", 2)>>), 2)
Leaves == {LeafA, LeafB}

Operand(kind, val) == [kind |-> kind, val |-> val]

Scalars == {Operand("scalar", Zero), Operand("scalar", Num(2))}
Lists == {Operand("list", <<Num(2)>>), Operand("list", <<One, Num(2), Num(3)>>)}
NdArrays == {Operand("ndarray", Vec(<<Zero, Num(3)>>)),
             Operand("ndarray", Arr(<<1, 2>>, <<Num(3), Num(5)>>))}
Unrecognized == {Operand("str", "abc")}

\* What the right operand of an operator may be, given the left one.
Others(self) ==
    {Operand("tf", g) : g \in Leaves \cup {self}}
        \cup Scalars \cup Lists \cup NdArrays \cup Unrecognized

NoObj == [cls |-> "None"]
NoOp == [op |-> "none", self |-> NoObj, other |-> Operand("none", <<>>)]

-----------------------------------------------------------------------------
(* The algebra: a caller keeps a TimeFunction f, rebinds it to the result  *)
(* of each operator it applies (f = f * other) and evaluates it.           *)

InitAlg ==
    /\ f \in Leaves
    /\ obj = NoObj
    /\ log = <<>>
    /\ lastOp = NoOp
    /\ ret = Return("none", <<>>)
    /\ invoked = FALSE

\* The caller's step around an operator: the result is kept when there is
\* one, and no evaluation rule runs.
Bind(op, other, r) ==
    /\ Depth(f) < MaxDepth
    /\ ret' = r
    /\ f' = IF r.kind = "tf" THEN r.val ELSE f
    /\ lastOp' = [op |-> op, self |-> f, other |-> other]
    /\ invoked' = FALSE
    /\ UNCHANGED <<obj, log>>

Mul == \E other \in Others(f) : Bind("mul", other, __mul__(f, other))
Add == \E other \in Others(f) : Bind("add", other, __add__(f, other))
Sub == \E other \in Others(f) : Bind("sub", other, __sub__(f, other))
Div == \E other \in Others(f) : Bind("div", other, __div__(f, other))

\* f(time).  An evaluation changes no object, so a second one in a row
\* reaches only states the first one reaches too: the caller makes one.
Call ==
    \E time \in TimeArrays :
        /\ lastOp.op # "call"
        /\ ret' = Return("array", __call__(f, time))
        /\ lastOp' = [op |-> "call", self |-> f, other |-> Operand("time", time)]
        /\ invoked' = TRUE
        /\ UNCHANGED <<f, obj, log>>

NextAlg == Mul \/ Add \/ Sub \/ Div \/ Call

SpecAlg == InitAlg /\ [][NextAlg]_vars

-----------------------------------------------------------------------------
(* The generators *)

\* The traits every TimeFunction takes as keywords.
Traits(cls, nout, fn, keywords) ==
    [cls |-> cls, nout |-> nout, fn |-> fn,
     windowed |-> keywords.windowed, window |-> keywords.window]

None == [tag |-> "None"]

\* values[:, i] of a two-dimensional array, i counted from 0.
Column(values, i) ==
    IF i >= values.shape[2] THEN Raise("IndexError")
    ELSE Vec([r \in 1..values.shape[1] |-> values.data[(r - 1) * values.shape[2] + i + 1]])

Interp(x, y) == [tag |-> "interp", x |-> x, y |-> y]

\* InterpolatedConfound.__init__
InterpolatedConfound(times, values, keywords) ==
    LET self == Traits("InterpolatedConfound", 1, None, keywords)
                    @@ [times |-> times, values |-> values]
    IN  IF Len(values.shape) = 1
        THEN Return("obj", [self EXCEPT !.nout = 1] @@ [f |-> Interp(times, values.data)])
        ELSE LET n == values.shape[1]
                 cols == [i \in 1..n |-> Column(values, i - 1)]
             IN  IF \E i \in 1..n : IsErr(cols[i])
                 THEN Return("raise", "IndexError")
                 ELSE Return("obj", [self EXCEPT !.nout = n]
                                 @@ [f |-> FnList([i \in 1..n |-> Interp(times, cols[i].data)])])

\* FunctionConfound.__init__
FunctionConfound(fn, keywords) ==
    Return("obj", Traits("FunctionConfound", Len(fn),
                         IF Len(fn) = 1 THEN fn[1] ELSE FnList(fn), keywords))

\* The first breakpoint PeriodicStimulus.__init__ lays down, -1.0e-07.
Sentinel == Rat(-1, 10000000)

RECURSIVE PulseTimes(_, _, _, _)
PulseTimes(n, start, duration, step) ==
    IF n = 0 THEN <<Sentinel>>
    ELSE PulseTimes(n - 1, start, duration, step)
            \o <<RAdd(RMul(step, Num(n - 1)), start),
                 RAdd(RAdd(RMul(step, Num(n - 1)), start), duration)>>

RECURSIVE PulseValues(_, _)
PulseValues(n, height) ==
    IF n = 0 THEN <<Zero>> ELSE PulseValues(n - 1, height) \o <<height, Zero>>

\* PeriodicStimulus.__init__: times and values are built and handed to
\* Stimulus; fn keeps the default of its trait.
PeriodicStimulus(n, start, duration, step, height, keywords) ==
    Return("obj", Traits("PeriodicStimulus", 1, None, keywords)
               @@ [times |-> PulseTimes(n, start, duration, step),
                   values |-> PulseValues(n, height),
                   n |-> n, start |-> start, duration |-> duration,
                   step |-> step, height |-> height])

\* Events.__init__
Events(keywords) ==
    Return("obj", Traits("Events", 1, None, keywords)
               @@ [times_is_None |-> TRUE, times |-> <<>>, values |-> <<>>])

\* N.argsort: the indices in the order of their times, equal times in the
\* order they have in the array.
RECURSIVE argsort(_, _)
argsort(times, S) ==
    IF S = {} THEN <<>>
    ELSE LET i == CHOOSE i \in S :
                     \A j \in S : \/ RLess(times[i], times[j])
                                  \/ times[i] = times[j] /\ i <= j
         IN  <<i>> \o argsort(times, S \ {i})

take(a, asort) == [k \in 1..Len(asort) |-> a[asort[k]]]

Step(x, y) == [tag |-> "step", x |-> x, y |-> y]

\* Events.append.  On the first call times and values become empty lists
\* and fn the constant 0, which the last line of append replaces.
append(self, start, duration, height) ==
    LET first == IF self.times_is_None
                 THEN [self EXCEPT !.times_is_None = FALSE, !.times = <<>>,
                                   !.values = <<>>, !.fn = [tag |-> "lambda"]]
                 ELSE self
        times == first.times \o <<start, RAdd(start, duration)>>
        asort == argsort(times, 1..Len(times))
        values == first.values \o <<height, Zero>>
    IN  [first EXCEPT !.times = take(times, asort),
                      !.values = take(values, asort),
                      !.fn = Step(take(times, asort), take(values, asort))]

\* DeltaFunction
DeltaFunction(start, dt, keywords) ==
    Return("obj", Traits("DeltaFunction", 1, None, keywords)
               @@ [start |-> start, dt |-> dt])

\* trange * N.arange(1, df - 2) / (df - 3.0) + tmin
Knots(df, tmin, trange) ==
    [i \in 1..(df - 3) |-> RAdd(RDiv(RMul(trange, Num(i)), Num(df - 3)), tmin)]

\* SplineConfound.__init__
SplineConfound(df, knots, keywords) ==
    LET tmax == keywords.window[2]
        tmin == keywords.window[1]
        trange == RSub(tmax, tmin)
        polys == [i \in 1..(IF df < 4 THEN df ELSE 4) |-> Fn("poly", i - 1)]
        knots1 == IF df >= 4 /\ knots = <<>> THEN Knots(df, tmin, trange) ELSE knots
        knots2 == [knots1 EXCEPT ![Len(knots1)] = Inf]
        splines == [i \in 1..(Len(knots2) - 1) |->
                       [tag |-> "spline", a |-> knots2[i], b |-> knots2[i + 1]]]
    IN  IF knots1 = <<>> THEN Return("raise", "IndexError")
        ELSE Return("obj", Traits("SplineConfound", df, FnList(polys \o splines), keywords)
                        @@ [df |-> df, knots |-> knots2])

-----------------------------------------------------------------------------
(* Inputs of the generators *)

MaxAppends == 2
MaxN == 2
MaxDf == 5
MaxS == 3
MaxC == 3

Half(n) == Rat(n, 2)

Keywords ==
    {[windowed |-> FALSE, window |-> DefaultWindow],
     [windowed |-> TRUE, window |-> <<Num(2), Num(5)>>],
     [windowed |-> FALSE, window |-> <<Zero, Num(10)>>]}

\* The time arrays the generators are evaluated at.
ProbeTimes ==
    {Time(<<Half(1), Half(3), Num(4)>>),
     Time(<<One, Num(2), Num(3), Num(5), Num(6)>>),
     Time(<<Half(1), Num(2), Half(7), Num(10)>>),
     Time(<<Num(3)>>),
     Time(<<Zero, One>>)}

Starts == {Zero, One, Num(2), Num(3)}
Durations == {One, Num(2)}
Steps == {One, Num(3)}
Heights == {One, Num(5)}
Widths == {One, Rat(1, 10)}
KnotLists == {<<>>, <<Num(2), Num(5)>>}

\* The samples of an interpolated confound: S times 0, 3, 6, ... and the
\* value r + 2c in row r, column c.
SampleTimes(S) == [r \in 1..S |-> Num(3 * (r - 1))]
Samples1(S) == Vec([r \in 1..S |-> Num(r)])
Samples2(S, C) ==
    Arr(<<S, C>>, [k \in 1..(S * C) |-> Num(((k - 1) \div C) + 1 + 2 * (((k - 1) % C) + 1))])

Rules ==
    {[fn |-> Fn("poly", 1), nout |-> 1],
     [fn |-> FnList(<<Fn("poly", 0), Fn("poly", 1)>>), nout |-> 2],
     [fn |-> f2("mul", LeafB, Operand("scalar", Num(2))), nout |-> 2]}

FunctionLists ==
    {<<Fn("poly", 1)>>, <<Fn("poly", 0), Fn("poly", 2)>>}

-----------------------------------------------------------------------------
(* The generators: a caller constructs an object, appends to it when it is *)
(* an Events, and evaluates it.                                            *)

Init ==
    /\ f = LeafA
    /\ obj = NoObj
    /\ log = <<>>
    /\ lastOp = NoOp
    /\ ret = Return("none", <<>>)
    /\ invoked = FALSE

\* The object a caller holds after a constructor: the one returned, or
\* none when the constructor raised.
Kept(r) == IF r.kind = "obj" THEN r.val ELSE NoObj

Constructor(cls, args) == [op |-> cls, self |-> NoObj, other |-> Operand("args", args)]

NewTimeFunction ==
    \E rule \in Rules, keywords \in Keywords :
        LET r == Return("obj", Traits("TimeFunction", rule.nout, rule.fn, keywords))
        IN  /\ ret' = r
            /\ obj' = Kept(r)
            /\ log' = <<>>
            /\ lastOp' = Constructor("TimeFunction", <<rule, keywords>>)
            /\ invoked' = FALSE
            /\ UNCHANGED f

NewInterpolatedConfound ==
    \E S \in 2..MaxS, C \in 0..MaxC, keywords \in Keywords :
        LET values == IF C = 0 THEN Samples1(S) ELSE Samples2(S, C)
            r == InterpolatedConfound(SampleTimes(S), values, keywords)
        IN  /\ ret' = r
            /\ obj' = Kept(r)
            /\ log' = <<>>
            /\ lastOp' = Constructor("InterpolatedConfound", <<S, C, keywords>>)
            /\ invoked' = FALSE
            /\ UNCHANGED f

NewFunctionConfound ==
    \E fn \in FunctionLists, keywords \in Keywords :
        LET r == FunctionConfound(fn, keywords)
        IN  /\ ret' = r
            /\ obj' = Kept(r)
            /\ log' = <<>>
            /\ lastOp' = Constructor("FunctionConfound", <<fn, keywords>>)
            /\ invoked' = FALSE
            /\ UNCHANGED f

NewPeriodicStimulus ==
    \E n \in 1..MaxN, start \in {Zero, One}, duration \in Durations,
       step \in Steps, height \in Heights :
        LET r == PeriodicStimulus(n, start, duration, step, height,
                                  [windowed |-> FALSE, window |-> DefaultWindow])
        IN  /\ ret' = r
            /\ obj' = Kept(r)
            /\ log' = <<>>
            /\ lastOp' = Constructor("PeriodicStimulus",
                                     <<n, start, duration, step, height>>)
            /\ invoked' = FALSE
            /\ UNCHANGED f

NewEvents ==
    \E keywords \in Keywords :
        LET r == Events(keywords)
        IN  /\ ret' = r
            /\ obj' = Kept(r)
            /\ log' = <<>>
            /\ lastOp' = Constructor("Events", <<keywords>>)
            /\ invoked' = FALSE
            /\ UNCHANGED f

\* e.append(start, duration, height); log keeps the intervals appended.
EventsAppend ==
    \E start \in Starts, duration \in Durations, height \in Heights :
        /\ obj.cls = "Events"
        /\ Len(log) < MaxAppends
        /\ obj' = append(obj, start, duration, height)
        /\ log' = Append(log, [start |-> start, duration |-> duration, height |-> height])
        /\ lastOp' = [op |-> "append", self |-> obj,
                      other |-> Operand("args", <<start, duration, height>>)]
        /\ ret' = Return("none", <<>>)
        /\ invoked' = FALSE
        /\ UNCHANGED f

NewDeltaFunction ==
    \E start \in {Zero, One}, dt \in Widths, keywords \in Keywords :
        LET r == DeltaFunction(start, dt, keywords)
        IN  /\ ret' = r
            /\ obj' = Kept(r)
            /\ log' = <<>>
            /\ lastOp' = Constructor("DeltaFunction", <<start, dt, keywords>>)
            /\ invoked' = FALSE
            /\ UNCHANGED f

NewSplineConfound ==
    \E df \in 1..MaxDf, knots \in KnotLists, keywords \in Keywords :
        LET r == SplineConfound(df, knots, keywords)
        IN  /\ ret' = r
            /\ obj' = Kept(r)
            /\ log' = <<>>
            /\ lastOp' = Constructor("SplineConfound", <<df, knots, keywords>>)
            /\ invoked' = FALSE
            /\ UNCHANGED f

\* obj(time)
Evaluate ==
    \E time \in ProbeTimes :
        /\ obj.cls # "None"
        /\ ret' = Return("array", __call__(obj, time))
        /\ lastOp' = [op |-> "call", self |-> obj, other |-> Operand("time", time)]
        /\ invoked' = TRUE
        /\ UNCHANGED <<f, obj, log>>

Next ==
    \/ NewTimeFunction
    \/ NewInterpolatedConfound
    \/ NewFunctionConfound
    \/ NewPeriodicStimulus
    \/ NewEvents
    \/ EventsAppend
    \/ NewDeltaFunction
    \/ NewSplineConfound
    \/ Evaluate

Spec == Init /\ [][Next]_vars

-----------------------------------------------------------------------------
(* Properties of the algebra *)

Operators == {"mul", "add", "sub", "div"}

\* The last step applied an operator to two TimeFunctions of equal nout.
SameNout ==
    /\ lastOp.op \in Operators
    /\ lastOp.other.kind = "tf"
    /\ lastOp.other.val.nout = lastOp.self.nout

\* r is a and b combined element by element with Op.
Elementwise(Op(_, _), r, a, b) ==
    /\ ~IsErr(r)
    /\ r.shape = a.shape
    /\ a.shape = b.shape
    /\ \A k \in 1..Len(a.data) : r.data[k] = Op(a.data[k], b.data[k])

Plain(op, x, y) ==
    CASE op = "mul" -> RMul(x, y)
      [] op = "add" -> RAdd(x, y)
      [] op = "sub" -> RSub(x, y)

\* C1: adding, multiplying or subtracting two TimeFunctions f and g of equal
\* nout (themselves results of earlier operators or not) returns a
\* TimeFunction of the same nout whose value at every time array where f and
\* g evaluate is f(t) + g(t), f(t) * g(t) or f(t) - g(t) element by element.
C1_Pointwise ==
    (SameNout /\ lastOp.op \in {"add", "mul", "sub"}) =>
        /\ ret.kind = "tf"
        /\ ret.val.nout = lastOp.self.nout
        /\ \A time \in TimeArrays :
              LET a == __call__(lastOp.self, time)
                  b == __call__(lastOp.other.val, time)
                  Op(x, y) == Plain(lastOp.op, x, y)
              IN  (~IsErr(a) /\ ~IsErr(b)) =>
                      Elementwise(Op, __call__(ret.val, time), a, b)

\* A nested case of C1: the left operand is itself the result of an operator
\* and the two operands have two channels.
C1_Witness ==
    /\ SameNout
    /\ lastOp.op = "sub"
    /\ Depth(lastOp.self) >= 1
    /\ lastOp.other.val # lastOp.self
    /\ lastOp.self.nout = 2
    /\ ret.kind = "tf"
    /\ \E time \in TimeArrays : ~IsErr(__call__(lastOp.self, time))

\* The last step applied an operator to a TimeFunction and a list or a
\* one-dimensional array of exactly nout numbers.
VectorOfNout ==
    /\ lastOp.op \in Operators
    /\ lastOp.other.kind \in {"list", "ndarray"}
    /\ lastOp.other.kind = "ndarray" => Len(lastOp.other.val.shape) = 1
    /\ Len(asarray(lastOp.other)) = lastOp.self.nout

\* The channel an element of an evaluated array belongs to.
Channel(a, nout, k) == ((k - 1) \div (Len(a.data) \div nout)) + 1

Combined(op, x, y) ==
    IF op = "div" THEN (IF y[1] = 0 THEN Zero ELSE RDiv(x, y)) ELSE Plain(op, x, y)

\* C2: combining a TimeFunction f of nout n >= 1 with a sequence v of length
\* n gives a function whose channel i, at every time point, is f's channel i
\* at that time point combined with v[i].
C2_PerChannel ==
    VectorOfNout =>
        /\ ret.kind = "tf"
        /\ \A time \in TimeArrays :
              LET a == __call__(lastOp.self, time)
                  r == __call__(ret.val, time)
                  v == asarray(lastOp.other)
              IN  ~IsErr(a) =>
                      /\ ~IsErr(r)
                      /\ r.shape = a.shape
                      /\ \A k \in 1..Len(a.data) :
                            r.data[k] = Combined(lastOp.op, a.data[k],
                                                 v[Channel(a, lastOp.self.nout, k)])

\* C2 for two or more channels, where the code does as the claim says.
C2_TwoChannels == (VectorOfNout /\ lastOp.self.nout >= 2) => C2_PerChannel

\* The right operand's number of channels or length is not f's nout.
Mismatch ==
    /\ lastOp.op \in Operators
    /\ \/ lastOp.other.kind = "tf" /\ lastOp.other.val.nout # lastOp.self.nout
       \/ lastOp.other.kind = "list" /\ Len(lastOp.other.val) # lastOp.self.nout
       \/ /\ lastOp.other.kind = "ndarray"
          /\ Head(lastOp.other.val.shape) # lastOp.self.nout

\* C3: an operator applied to operands whose channel counts or lengths
\* disagree raises at once: no TimeFunction is returned, no evaluation rule
\* has run and the left operand is the caller's function as before.
C3_EagerMismatch ==
    Mismatch => (ret.kind = "raise" /\ ~invoked /\ f = lastOp.self)

\* A two-channel function combined with a list of three numbers.
C3_Witness ==
    /\ Mismatch
    /\ lastOp.self.nout = 2
    /\ lastOp.other.kind = "list"
    /\ Len(lastOp.other.val) = 3
    /\ ret.kind = "raise"

\* C4: division never fails and never yields infinity.  At every time array
\* where f (and g) evaluate: (f / 0)(t) is all zeros, (f / c)(t) * c = f(t)
\* for a scalar c # 0, and (f / g)(t) is 0 where g(t) is 0 and f(t) / g(t)
\* elsewhere.
C4_Division ==
    (lastOp.op = "div" /\ (lastOp.other.kind = "scalar" \/ SameNout)) =>
        /\ ret.kind = "tf"
        /\ \A time \in TimeArrays :
              LET a == __call__(lastOp.self, time)
                  r == __call__(ret.val, time)
                  c == lastOp.other.val
                  b == IF lastOp.other.kind = "scalar"
                       THEN Arr(a.shape, [k \in 1..Len(a.data) |-> c])
                       ELSE __call__(c, time)
                  Quot(x, y) == IF y[1] = 0 THEN Zero ELSE RDiv(x, y)
              IN  (~IsErr(a) /\ ~IsErr(b)) =>
                      /\ Elementwise(Quot, r, a, b)
                      /\ \A k \in 1..Len(r.data) : r.data[k][2] # 0
                      /\ (lastOp.other.kind = "scalar" /\ c[1] # 0) =>
                            \A k \in 1..Len(r.data) : RMul(r.data[k], c) = a.data[k]

\* A division by a function that is 0 at a time where the dividend is not.
C4_Witness ==
    /\ lastOp.op = "div"
    /\ SameNout
    /\ ret.kind = "tf"
    /\ \E time \in TimeArrays :
          LET a == __call__(lastOp.self, time)
              b == __call__(lastOp.other.val, time)
          IN  /\ ~IsErr(a)
              /\ ~IsErr(b)
              /\ \E k \in 1..Len(a.data) : a.data[k][1] # 0 /\ b.data[k][1] = 0

-----------------------------------------------------------------------------
(* Properties of the generators *)

End(e) == RAdd(e.start, e.duration)

\* The intervals [start, start + duration) appended so far are disjoint.
Disjoint ==
    \A i \in 1..Len(log), j \in 1..Len(log) :
        i < j => (RLessEqual(End(log[i]), log[j].start)
                    \/ RLessEqual(End(log[j]), log[i].start))

Covers(e, t) == RLessEqual(e.start, t) /\ RLess(t, End(e))

\* The height of the appended interval that holds t, 0 when none does.
HeightAt(t) ==
    IF \E i \in 1..Len(log) : Covers(log[i], t)
    THEN log[CHOOSE i \in 1..Len(log) : Covers(log[i], t)].height
    ELSE Zero

\* The last step evaluated the object at lastOp.other.val.
Evaluated(cls) == lastOp.op = "call" /\ obj.cls = cls

\* C5: after appends of pairwise disjoint intervals [start, start + duration)
\* to a fresh Events, in any order, the value at a time t is the height of
\* the interval that holds t, and 0 when no interval holds t.
C5_StepSemantics ==
    (Evaluated("Events") /\ ~obj.windowed /\ log # <<>> /\ Disjoint) =>
        ret.val = squeeze(Map(HeightAt, lastOp.other.val))

\* C5 for intervals of which no two share an endpoint.
C5_Apart ==
    (\A i \in 1..Len(log), j \in 1..Len(log) :
        i # j => (log[i].start # End(log[j]) /\ log[i].start # log[j].start))
        => C5_StepSemantics

\* C5's example: append(1.0, 2.0, height=5.0), then 0 at 0.5, 5 at 1.5 and
\* 0 at 4.0.
C5_Example ==
    (/\ Evaluated("Events")
     /\ ~obj.windowed
     /\ log = <<[start |-> One, duration |-> Num(2), height |-> Num(5)]>>
     /\ lastOp.other.val = Time(<<Half(1), Half(3), Num(4)>>))
        => ret.val = Vec(<<Zero, Num(5), Zero>>)

\* C10: after k appends of pairwise disjoint intervals to a fresh Events,
\* times is strictly increasing, times and values have 2k entries, and each
\* start is paired with its height and each end with 0.
C10_Breakpoints ==
    (obj.cls = "Events" /\ Disjoint) =>
        /\ Len(obj.times) = 2 * Len(log)
        /\ Len(obj.values) = 2 * Len(log)
        /\ \A k \in 1..(Len(obj.times) - 1) : RLess(obj.times[k], obj.times[k + 1])
        /\ \A i \in 1..Len(log) :
              /\ \E k \in 1..Len(obj.times) :
                    obj.times[k] = log[i].start /\ obj.values[k] = log[i].height
              /\ \E k \in 1..Len(obj.times) :
                    obj.times[k] = End(log[i]) /\ obj.values[k] = Zero

\* C10 with "strictly increasing" weakened to "never decreasing".
C10_Sorted ==
    (obj.cls = "Events" /\ Disjoint) =>
        /\ Len(obj.times) = 2 * Len(log)
        /\ Len(obj.values) = 2 * Len(log)
        /\ \A k \in 1..(Len(obj.times) - 1) : RLessEqual(obj.times[k], obj.times[k + 1])
        /\ \A i \in 1..Len(log) :
              /\ \E k \in 1..Len(obj.times) :
                    obj.times[k] = log[i].start /\ obj.values[k] = log[i].height
              /\ \E k \in 1..Len(obj.times) :
                    obj.times[k] = End(log[i]) /\ obj.values[k] = Zero

\* The value of a train of n pulses at t.
PulseAt(self, t) ==
    IF \E i \in 0..(self.n - 1) :
          LET s == RAdd(self.start, RMul(Num(i), self.step))
          IN  RLessEqual(s, t) /\ RLess(t, RAdd(s, self.duration))
    THEN self.height
    ELSE Zero

\* C6: a PeriodicStimulus with start >= 0 and 0 < duration <= step is a
\* one-channel TimeFunction with a step-function rule; at t it is height when
\* t is in [start + i*step, start + i*step + duration) for an i in 0..n-1 and
\* 0 otherwise.
C6_PulseTrain ==
    (Evaluated("PeriodicStimulus") /\ RLessEqual(obj.duration, obj.step)) =>
        /\ obj.nout = 1
        /\ obj.fn.tag = "step"
        /\ LET P(t) == PulseAt(obj, t)
           IN  ret.val = squeeze(Map(P, lastOp.other.val))

\* The last step constructed a SplineConfound without knots.
SplineOf(df) ==
    /\ lastOp.op = "SplineConfound"
    /\ lastOp.other.val[1] = df
    /\ lastOp.other.val[2] = <<>>

\* C7: for every df >= 1 and every window, constructing a SplineConfound
\* succeeds with nout = df and df basis functions: the monomials t^0 ..
\* t^(min(df,4)-1), then t^3 on (knot_i, knot_i+1] for consecutive knots, the
\* last knot being +infinity.
C7_Basis ==
    \A df \in 1..MaxDf :
        SplineOf(df) =>
            /\ ret.kind = "obj"
            /\ obj.nout = df
            /\ obj.fn.tag = "list"
            /\ Len(obj.fn.fns) = df
            /\ LET m == IF df < 4 THEN df ELSE 4
               IN  /\ \A i \in 1..m : obj.fn.fns[i] = Fn("poly", i - 1)
                   /\ \A i \in 1..(df - m) :
                         obj.fn.fns[m + i] =
                             [tag |-> "spline", a |-> obj.knots[i], b |-> obj.knots[i + 1]]
                   /\ Len(obj.knots) = df - m + 1
                   /\ obj.knots[Len(obj.knots)] = Inf

\* C7 from df = 4 on.
C7_FromFour ==
    (\E df \in 1..3 : SplineOf(df)) \/ C7_Basis

\* C8: an InterpolatedConfound built from S >= 2 times and an S x C array of
\* values, C >= 1, has C interpolants, the k-th over column k, and nout = C.
C8_PerColumn ==
    (lastOp.op = "InterpolatedConfound" /\ lastOp.other.val[2] >= 1) =>
        LET S == lastOp.other.val[1]
            C == lastOp.other.val[2]
        IN  /\ ret.kind = "obj"
            /\ obj.nout = C
            /\ obj.f.tag = "list"
            /\ Len(obj.f.fns) = C
            /\ \A k \in 1..C :
                  obj.f.fns[k] = Interp(SampleTimes(S), Column(Samples2(S, C), k - 1).data)

\* C8 for as many samples as channels.
C8_Square ==
    (lastOp.op = "InterpolatedConfound"
        /\ lastOp.other.val[1] # lastOp.other.val[2]) \/ C8_PerColumn

\* The array a with the entries of the times outside (start, end] set to 0.
Masked(a, window, time) ==
    IF IsErr(a) THEN a
    ELSE Arr(a.shape,
             [k \in 1..Len(a.data) |->
                 LET t == time.data[((k - 1) % Len(time.data)) + 1]
                 IN  IF RGreater(t, window[1]) /\ RLessEqual(t, window[2])
                     THEN a.data[k] ELSE Zero])

\* C9: a windowed TimeFunction of any class is 0 in every channel at each t
\* with t <= start or t > end, and has the value of its evaluation rule at
\* each t with start < t <= end.
C9_Windowing ==
    (lastOp.op = "call" /\ obj.windowed) =>
        ret.val = Masked(__call__([obj EXCEPT !.windowed = FALSE], lastOp.other.val),
                         obj.window, lastOp.other.val)

\* C9 for every class but DeltaFunction.
C9_ButDelta == Evaluated("DeltaFunction") \/ C9_Windowing

====
